---- MODULE Spec2Model ----
(***************************************************************************)
(* Lurien: an in-process sampling profiler (include/lurien/lurien.h).      *)
(*                                                                         *)
(* Application threads mark scopes (Scope constructor / destructor call    *)
(* ThreadSamplingData::Update), one sampler thread (TakeSamples) walks the *)
(* registry Ext::samplers of weak references and calls TakeSample on every *)
(* state it can still lock, and ~ThreadSamplingData accumulates the counts *)
(* and hands the tree to Ext::receiver.  Init and Stop start and stop the  *)
(* sampler thread.                                                         *)
(*                                                                         *)
(* A critical section that takes one mutex and no other is one action;     *)
(* the sampler's pass, which keeps Ext::sampler_sync while it takes each   *)
(* state's sample_sync_, is split at every point where another thread can  *)
(* observe it.  Init and Stop take no lock and are split at every read     *)
(* and write of the shared Ext members.                                    *)
(***************************************************************************)
EXTENDS Integers, Sequences, FiniteSets, TLC

\* ------------------------------------------------------------------ bounds

\* Width in bits of the modelled std::size_t path identifier.
HashBits == 2
\* Deepest nesting of live Scope objects on one thread: in the programs of
\* Spec and SpecThreads, and in the programs of SpecTree.
MaxDepth == 2
MaxTreeDepth == 3
\* Passes of the sampler loop over the registry.
MaxPasses == 2

\* ------------------------------------------------------------ finite sets

\* Application threads that may use scope markers.
Workers == {1, 2}
\* Threads that call Init and Stop.
Callers == {1, 2}
\* Sampler threads that Init can ever spawn (one per Init that passes its check).
SamplerIds == {1, 2}
\* Scope names used by the application: in the programs of Spec and
\* SpecThreads, and in the programs of SpecTree.
Names == {"a"}
TreeNames == {"a", "b", "c"}
\* A scope name whose hash is 0, and the names of the programs of SpecCalls.
ZeroName == "z"
AnyNames == TreeNames \cup {ZeroName}
\* Output receivers the application can pass to Init.
Sinks == {1, 2}
\* The receiver the library provides, a DefaultOutputReceiver.
DefaultOutputReceiver == 3

\* Null values.
None == 0

\* ------------------------------------------------------- pure functions

\* hash_fn_(name): std::hash<std::string>, here a fixed map into HashBits bits.
\* "c" collides with the path a/b (1 xor 2 = 3).
hash_fn_(name) ==
  CASE name = "a" -> 1
    [] name = "b" -> 2
    [] name = "c" -> 3
    [] OTHER -> 0

RECURSIVE XorBits(_, _, _)
XorBits(x, y, bits) ==
  IF bits = 0 THEN 0
  ELSE (((x % 2) + (y % 2)) % 2) + (2 * XorBits(x \div 2, y \div 2, bits - 1))

\* Mutant: the path id is built by addition, which is not its own inverse.
Xor_Add(x, y) == (x + y) % (2 ^ HashBits)

\* operator^ on std::size_t.
Xor(x, y) == XorBits(x, y, HashBits)

\* XOR of the hashes of a sequence of names: the path id of a call path.
RECURSIVE PathId(_)
PathId(path) ==
  IF path = <<>> THEN 0
  ELSE Xor(PathId(SubSeq(path, 1, Len(path) - 1)), hash_fn_(path[Len(path)]))

\* A double: kind "num" is the exact quotient n/d (d > 0), kind "nan" what
\* IEEE-754 division yields for 0.0 / 0.0 and kind "inf" for x / 0.0, x > 0.
Double(n, d) == [kind |-> "num", n |-> n, d |-> d]

Zero == Double(0, 1)

\* double(parent.samples_) / total_samples_
Divide(samples, total) ==
  IF total # 0 THEN Double(samples, total)
  ELSE IF samples = 0 THEN [kind |-> "nan", n |-> 0, d |-> 0]
  ELSE [kind |-> "inf", n |-> samples, d |-> 0]

\* The thread identifier of a worker thread, a sampler thread, or no thread.
WorkerId(t) == [kind |-> "worker", n |-> t]

SamplerThreadId(s) == [kind |-> "sampler", n |-> s]

NoThreadId == [kind |-> "none", n |-> 0]

\* ---------------------------------------------------- ThreadSamplingData

\* A ScopeOutput.  The tree output_.scope_outputs_ is kept as the sequence of
\* its nodes in creation order; parent is the index of the node whose child
\* list holds it (None: the list of output_ itself).  A node is appended to
\* exactly one list by push_back, so the children of a node in list order are
\* the nodes naming it as parent in index order.
ScopeOutput(name, parent) ==
  [name_ |-> name, samples_ |-> 0, cpu_proportion_ |-> Zero, parent |-> parent]

\* ThreadSamplingData::ThreadSamplingData
NewThreadSamplingData ==
  [ current_scope_hash_ |-> 0,
    total_samples_      |-> 0,
    scope_data_         |-> <<>>,
    current_scope_      |-> None,
    thread_id_          |-> NoThreadId,
    scope_outputs_      |-> <<>> ]

\* The keys of scope_data_.
Keys(d) == DOMAIN d.scope_data_

\* Update reaches scope_data_[parent_hash] for a key the map does not hold:
\* operator[] inserts a null pointer, which is then dereferenced.
UpdateFaults(d, name) ==
  LET h == Xor(d.current_scope_hash_, hash_fn_(name))
      parent_hash == Xor(h, hash_fn_(name))
  IN  /\ h # 0
      /\ h \notin Keys(d)
      /\ parent_hash # 0
      /\ parent_hash \notin Keys(d)

\* The table with key h set to node index v.
Insert(table, h, v) ==
  [k \in DOMAIN table \cup {h} |-> IF k = h THEN v ELSE table[k]]

\* Mutant: Update without its test for the root (current_scope_hash_ == 0).
Update_NoRootCheck(d, name) ==
  LET h == Xor(d.current_scope_hash_, hash_fn_(name))
      parent_hash == Xor(h, hash_fn_(name))
      parent == IF parent_hash = 0 THEN None ELSE d.scope_data_[parent_hash]
      fresh == Len(d.scope_outputs_) + 1
  IN  IF h \notin Keys(d)
        THEN [d EXCEPT !.current_scope_hash_ = h,
                       !.scope_outputs_ = Append(@, ScopeOutput(name, parent)),
                       !.current_scope_ = fresh,
                       !.scope_data_ = Insert(@, h, fresh)]
      ELSE [d EXCEPT !.current_scope_hash_ = h,
                     !.current_scope_ = d.scope_data_[h]]

\* Mutant: Update creates a node on every entry, known path id or not.
Update_AlwaysCreate(d, name) ==
  LET h == Xor(d.current_scope_hash_, hash_fn_(name))
      parent_hash == Xor(h, hash_fn_(name))
      parent == IF parent_hash = 0 THEN None ELSE d.scope_data_[parent_hash]
      fresh == Len(d.scope_outputs_) + 1
  IN  IF h = 0
        THEN [d EXCEPT !.current_scope_hash_ = h, !.current_scope_ = None]
      ELSE IF UpdateFaults(d, name)
        THEN [d EXCEPT !.current_scope_hash_ = h,
                       !.scope_data_ = Insert(@, parent_hash, None)]
      ELSE [d EXCEPT !.current_scope_hash_ = h,
                     !.scope_outputs_ = Append(@, ScopeOutput(name, parent)),
                     !.current_scope_ = fresh,
                     !.scope_data_ = Insert(@, h, fresh)]

\* Mutant: Update appends every new node to the list of output_.
Update_FlatTree(d, name) ==
  LET h == Xor(d.current_scope_hash_, hash_fn_(name))
      fresh == Len(d.scope_outputs_) + 1
  IN  IF h = 0
        THEN [d EXCEPT !.current_scope_hash_ = h, !.current_scope_ = None]
      ELSE IF h \notin Keys(d)
        THEN [d EXCEPT !.current_scope_hash_ = h,
                       !.scope_outputs_ = Append(@, ScopeOutput(name, None)),
                       !.current_scope_ = fresh,
                       !.scope_data_ = Insert(@, h, fresh)]
      ELSE [d EXCEPT !.current_scope_hash_ = h,
                     !.current_scope_ = d.scope_data_[h]]

\* Mutant: back at path id 0, Update leaves current_scope_ as it was.
Update_KeepScope(d, name) ==
  LET h == Xor(d.current_scope_hash_, hash_fn_(name))
      parent_hash == Xor(h, hash_fn_(name))
      parent == IF parent_hash = 0 THEN None ELSE d.scope_data_[parent_hash]
      fresh == Len(d.scope_outputs_) + 1
  IN  IF h = 0
        THEN [d EXCEPT !.current_scope_hash_ = h]
      ELSE IF h \notin Keys(d)
        THEN [d EXCEPT !.current_scope_hash_ = h,
                       !.scope_outputs_ = Append(@, ScopeOutput(name, parent)),
                       !.current_scope_ = fresh,
                       !.scope_data_ = Insert(@, h, fresh)]
      ELSE [d EXCEPT !.current_scope_hash_ = h,
                     !.current_scope_ = d.scope_data_[h]]

\* Mutant: Update does not insert the node it creates into scope_data_.
Update_NoInsert(d, name) ==
  LET h == Xor(d.current_scope_hash_, hash_fn_(name))
      parent_hash == Xor(h, hash_fn_(name))
      parent == IF parent_hash = 0 THEN None ELSE d.scope_data_[parent_hash]
      fresh == Len(d.scope_outputs_) + 1
  IN  IF h = 0
        THEN [d EXCEPT !.current_scope_hash_ = h, !.current_scope_ = None]
      ELSE IF h \notin Keys(d)
        THEN IF UpdateFaults(d, name)
               THEN [d EXCEPT !.current_scope_hash_ = h,
                              !.scope_data_ = Insert(@, parent_hash, None)]
               ELSE [d EXCEPT !.current_scope_hash_ = h,
                              !.scope_outputs_ = Append(@, ScopeOutput(name, parent)),
                              !.current_scope_ = fresh]
      ELSE [d EXCEPT !.current_scope_hash_ = h,
                     !.current_scope_ = d.scope_data_[h]]

\* Mutant: Update does not look up the node of a path id it already knows.
Update_StaleScope(d, name) ==
  LET h == Xor(d.current_scope_hash_, hash_fn_(name))
      parent_hash == Xor(h, hash_fn_(name))
      parent == IF parent_hash = 0 THEN None ELSE d.scope_data_[parent_hash]
      fresh == Len(d.scope_outputs_) + 1
  IN  IF h = 0
        THEN [d EXCEPT !.current_scope_hash_ = h, !.current_scope_ = None]
      ELSE IF h \notin Keys(d)
        THEN [d EXCEPT !.current_scope_hash_ = h,
                       !.scope_outputs_ = Append(@, ScopeOutput(name, parent)),
                       !.current_scope_ = fresh,
                       !.scope_data_ = Insert(@, h, fresh)]
      ELSE [d EXCEPT !.current_scope_hash_ = h]

\* ThreadSamplingData::Update, the body under sample_sync_.  Where
\* UpdateFaults holds, the body ends at the null parent, after operator[] has
\* inserted it.
Update(d, name) ==
  LET h == Xor(d.current_scope_hash_, hash_fn_(name))
      parent_hash == Xor(h, hash_fn_(name))
      parent == IF parent_hash = 0 THEN None ELSE d.scope_data_[parent_hash]
      fresh == Len(d.scope_outputs_) + 1
  IN  IF h = 0
        THEN [d EXCEPT !.current_scope_hash_ = h, !.current_scope_ = None]
      ELSE IF h \notin Keys(d)
        THEN IF UpdateFaults(d, name)
               THEN [d EXCEPT !.current_scope_hash_ = h,
                              !.scope_data_ = Insert(@, parent_hash, None)]
               ELSE [d EXCEPT !.current_scope_hash_ = h,
                              !.scope_outputs_ = Append(@, ScopeOutput(name, parent)),
                              !.current_scope_ = fresh,
                              !.scope_data_ = Insert(@, h, fresh)]
      ELSE [d EXCEPT !.current_scope_hash_ = h,
                     !.current_scope_ = d.scope_data_[h]]

\* Mutant: TakeSample counts the current scope but not the total.
TakeSample_NoTotal(d) ==
  IF d.current_scope_ # None
    THEN [d EXCEPT !.scope_outputs_[d.current_scope_].samples_ = @ + 1]
  ELSE d

\* Mutant: total_samples_ is counted only inside the test for a current scope.
TakeSample_CountedOnly(d) ==
  IF d.current_scope_ # None
    THEN [d EXCEPT !.scope_outputs_[d.current_scope_].samples_ = @ + 1,
                   !.total_samples_ = @ + 1]
  ELSE d

\* ThreadSamplingData::TakeSample, the body under sample_sync_.
TakeSample(d) ==
  LET counted == IF d.current_scope_ # None
                   THEN [d EXCEPT !.scope_outputs_[d.current_scope_].samples_ = @ + 1]
                   ELSE d
  IN  [counted EXCEPT !.total_samples_ = @ + 1]

\* The indices in S in increasing order.
RECURSIVE Ascending(_)
Ascending(S) ==
  IF S = {} THEN <<>>
  ELSE LET m == CHOOSE x \in S : \A y \in S : x <= y
       IN  <<m>> \o Ascending(S \ {m})

\* The child list of node p (None: of output_), in list order.
ChildList(nodes, p) ==
  Ascending({i \in DOMAIN nodes : nodes[i].parent = p})

\* accumulate_stats(parent): every child is accumulated and added to the
\* parent in list order, then the parent's proportion is set.  The result is
\* the whole tree after the call.
RECURSIVE accumulate_stats(_, _, _)
RECURSIVE AccumulateChildren(_, _, _, _)
RECURSIVE AccumulateChildren_Skip(_, _, _, _)
RECURSIVE AccumulateChildren_PreOrder(_, _, _, _)
\* Mutant: the children are accumulated but never added to the parent.
AccumulateChildren_Skip(nodes, total, p, kids) ==
  IF kids = <<>> THEN nodes
  ELSE AccumulateChildren_Skip(accumulate_stats(nodes, total, Head(kids)),
                               total, p, Tail(kids))

\* Mutant: a child's count is added to the parent before the child has been
\* accumulated.
AccumulateChildren_PreOrder(nodes, total, p, kids) ==
  IF kids = <<>> THEN nodes
  ELSE LET added == [nodes EXCEPT ![p].samples_ = @ + nodes[Head(kids)].samples_]
           done == accumulate_stats(added, total, Head(kids))
       IN  AccumulateChildren_PreOrder(done, total, p, Tail(kids))

AccumulateChildren(nodes, total, p, kids) ==
  IF kids = <<>> THEN nodes
  ELSE LET done == accumulate_stats(nodes, total, Head(kids))
           added == [done EXCEPT ![p].samples_ = @ + done[Head(kids)].samples_]
       IN  AccumulateChildren(added, total, p, Tail(kids))

accumulate_stats(nodes, total, p) ==
  LET summed == AccumulateChildren(nodes, total, p, ChildList(nodes, p))
  IN  [summed EXCEPT ![p].cpu_proportion_ = Divide(summed[p].samples_, total)]

\* The loop of the destructor over output_.scope_outputs_.
RECURSIVE AccumulateTop(_, _, _)
AccumulateTop(nodes, total, kids) ==
  IF kids = <<>> THEN nodes
  ELSE AccumulateTop(accumulate_stats(nodes, total, Head(kids)), total, Tail(kids))

\* ThreadSamplingData::~ThreadSamplingData up to the call of the receiver,
\* run by thread `by`.
Finalize(d, by) ==
  [d EXCEPT !.thread_id_ = by,
            !.scope_outputs_ =
               AccumulateTop(@, d.total_samples_, ChildList(@, None))]

\* DefaultOutputReceiver::PrintSubtree(scope, depth): the lines it writes,
\* the line of the scope and then the subtrees of its children in list order.
RECURSIVE PrintSubtree(_, _, _)
RECURSIVE PrintChildren(_, _, _)
PrintChildren(nodes, kids, depth) ==
  IF kids = <<>> THEN <<>>
  ELSE PrintSubtree(nodes, Head(kids), depth)
         \o PrintChildren(nodes, Tail(kids), depth)

PrintSubtree(nodes, p, depth) ==
  << [text |-> nodes[p].name_, depth |-> depth] >>
    \o PrintChildren(nodes, ChildList(nodes, p), depth + 1)

\* The lines DefaultOutputReceiver::HandleOutput(output) writes: the header
\* and the subtree of every top-level scope.
OutputLines(d) ==
  << [text |-> "Thread ID:", depth |-> 0] >>
    \o PrintChildren(d.scope_outputs_, ChildList(d.scope_outputs_, None), 0)

\* ------------------------------------------------------------------ state

VARIABLES
  keep_sampling,    \* Ext::keep_sampling
  sampling_worker,  \* Ext::sampling_worker: None, or the sampler thread it owns
  sampler_sync,     \* Ext::sampler_sync: the thread id of its holder, if any
  samplers,         \* Ext::samplers: the registry, a weak reference per entry
  receiver,         \* Ext::receiver: None, or the installed sink
  sampling_data,    \* the ThreadSamplingData objects, by the thread that made them
  state,            \* per object: "absent", "alive" or "destroyed"
  refs,             \* per object: the threads holding a shared_ptr to it
  tpc,              \* per worker: "start", "run" or "exited"
  scopes,           \* per worker: name_ of its live Scope objects, innermost last
  spc,              \* per sampler thread: its position in TakeSamples
  sidx,             \* per sampler thread: the registry entry its pass is at
  joinable,         \* per sampler thread: std::thread::joinable of its handle
  passes,           \* passes over the registry begun so far
  cpc,              \* per caller: its position in Init or Stop
  carg,             \* per caller: the receiver passed to the Init in progress
  handled,          \* per object: the sinks whose HandleOutput received it
  visits,           \* per object: the TakeSample calls made on it
  joins,            \* join() calls that have returned
  last_return,      \* per caller: how its last Init or Stop call returned
  stop_returned,    \* some Stop call has returned
  crashed,          \* the process has been killed (a fault or std::terminate)
  hpc,              \* per object: the position of the HandleOutput printing it
  output_sync_,     \* DefaultOutputReceiver::output_sync_: its holder, if any
  out_              \* DefaultOutputReceiver::out_: the lines written, in order

vars ==
  << keep_sampling, sampling_worker, sampler_sync, samplers, receiver,
     sampling_data, state, refs, tpc, scopes, spc, sidx, joinable, passes,
     cpc, carg, handled, visits, joins, last_return, stop_returned, crashed,
     hpc, output_sync_, out_ >>

ext_vars == << keep_sampling, sampling_worker, receiver >>

registry_vars == << sampler_sync, samplers >>

object_vars == << sampling_data, state, refs, handled, visits, hpc >>

output_vars == << output_sync_, out_ >>

worker_vars == << tpc, scopes >>

sampler_vars == << spc, sidx, joinable, passes >>

caller_vars == << cpc, carg, joins, last_return, stop_returned >>

\* Mutant: Ext::thread_data without thread_local, one object for all threads.
thread_data_Static(t) == 1

\* Ext::thread_data in thread t: thread_local, so every thread has its own.
thread_data(t) == t

\* The state after static initialisation, in a program whose threads `callers`
\* call Init and Stop and whose threads `workers` may use scope markers (any
\* other thread has nothing to do with the profiler).
InitWith(callers, workers) ==
  /\ keep_sampling = TRUE
  /\ sampling_worker = None
  /\ sampler_sync = NoThreadId
  /\ samplers = <<>>
  /\ receiver = None
  /\ sampling_data = [t \in Workers |-> NewThreadSamplingData]
  /\ state = [t \in Workers |-> "absent"]
  /\ refs = [t \in Workers |-> {}]
  /\ tpc = [t \in Workers |-> IF t \in workers THEN "start" ELSE "exited"]
  /\ scopes = [t \in Workers |-> <<>>]
  /\ spc = [s \in SamplerIds |-> "none"]
  /\ sidx = [s \in SamplerIds |-> 0]
  /\ joinable = [s \in SamplerIds |-> FALSE]
  /\ passes = 0
  /\ cpc = [c \in Callers |-> IF c \in callers THEN "idle" ELSE "done"]
  /\ carg = [c \in Callers |-> None]
  /\ handled = [t \in Workers |-> <<>>]
  /\ visits = [t \in Workers |-> 0]
  /\ joins = 0
  /\ last_return = [c \in Callers |-> "none"]
  /\ stop_returned = FALSE
  /\ crashed = FALSE
  /\ hpc = [t \in Workers |-> "none"]
  /\ output_sync_ = NoThreadId
  /\ out_ = <<>>

\* One thread (main) calls Init and Stop.

\* ---------------------------------------------------- object life cycle

\* The last shared_ptr to object t goes away in thread `by`:
\* ~ThreadSamplingData runs there and calls Ext::receiver->HandleOutput.
\* With no receiver installed the virtual call goes through a null pointer:
\* the process faults and no sink receives the tree.
Destroy(t, by) ==
  /\ sampling_data' = [sampling_data EXCEPT ![t] = Finalize(@, by)]
  /\ state' = [state EXCEPT ![t] = "destroyed"]
  /\ IF receiver = None
       THEN crashed' = TRUE /\ UNCHANGED << handled, hpc >>
       ELSE /\ handled' = [handled EXCEPT ![t] = Append(@, receiver)]
            /\ hpc' = IF receiver = DefaultOutputReceiver
                        THEN [hpc EXCEPT ![t] = "called"]
                        ELSE hpc
            /\ UNCHANGED crashed

\* Thread `by` drops its shared_ptr to object t.
Release(t, by) ==
  /\ refs' = [refs EXCEPT ![t] = @ \ {by}]
  /\ IF refs[t] \ {by} = {}
       THEN Destroy(t, by)
       ELSE UNCHANGED << sampling_data, state, handled, hpc, crashed >>

\* ------------------------------------------------------------- workers

\* CreateSamplingData: the initialiser of Ext::thread_data, run by thread t
\* before its first use of a Scope.
CreateSamplingData(t) ==
  /\ ~crashed
  /\ tpc[t] = "start"
  /\ sampler_sync = NoThreadId
  /\ tpc' = [tpc EXCEPT ![t] = "run"]
  /\ sampling_data' = [sampling_data EXCEPT ![thread_data(t)] = NewThreadSamplingData]
  /\ state' = [state EXCEPT ![thread_data(t)] = "alive"]
  /\ refs' = [refs EXCEPT ![thread_data(t)] = {WorkerId(t)}]
  /\ samplers' = Append(samplers, thread_data(t))
  /\ UNCHANGED << ext_vars, output_vars, sampler_sync, scopes, sampler_vars,
                  caller_vars, handled, hpc, visits, crashed >>

\* Ext::thread_data->Update(name), called from thread t.
CallUpdate(t, name) ==
  /\ sampling_data' =
       [sampling_data EXCEPT ![thread_data(t)] = Update(@, name)]
  /\ crashed' = UpdateFaults(sampling_data[thread_data(t)], name)

\* Scope::Scope(name) in thread t.
Enter(t, name) ==
  /\ ~crashed
  /\ tpc[t] = "run"
  /\ scopes' = [scopes EXCEPT ![t] = Append(@, name)]
  /\ CallUpdate(t, name)
  /\ UNCHANGED << ext_vars, output_vars, registry_vars, state, refs, handled,
                  hpc, visits, tpc, sampler_vars, caller_vars >>

\* Scope::~Scope of the innermost live Scope of thread t.
Exit(t) ==
  /\ ~crashed
  /\ tpc[t] = "run"
  /\ scopes[t] # <<>>
  /\ scopes' = [scopes EXCEPT ![t] = SubSeq(@, 1, Len(@) - 1)]
  /\ CallUpdate(t, scopes[t][Len(scopes[t])])
  /\ UNCHANGED << ext_vars, output_vars, registry_vars, state, refs, handled,
                  hpc, visits, tpc, sampler_vars, caller_vars >>

\* Ext::thread_data->Update(name) in thread t outside the stack discipline:
\* by the constructor or the destructor of a Scope that is not an automatic
\* variable (a member, a heap object), or by a direct call of the public
\* member function.  Such Scope objects are not kept in scopes.
UpdateCall(t, name) ==
  /\ ~crashed
  /\ tpc[t] = "run"
  /\ CallUpdate(t, name)
  /\ UNCHANGED << ext_vars, output_vars, registry_vars, state, refs, handled,
                  hpc, visits, worker_vars, sampler_vars, caller_vars >>

\* Thread t ends: its thread function has returned (no Scope is left) and
\* its thread_local shared_ptr, if it was initialised, is destroyed.
ThreadExit(t) ==
  /\ ~crashed
  /\ tpc[t] \in {"start", "run"}
  /\ scopes[t] = <<>>
  /\ tpc' = [tpc EXCEPT ![t] = "exited"]
  /\ IF tpc[t] = "run"
       THEN Release(thread_data(t), WorkerId(t))
       ELSE UNCHANGED << sampling_data, state, refs, handled, hpc, crashed >>
  /\ UNCHANGED << ext_vars, output_vars, registry_vars, scopes, visits,
                  sampler_vars, caller_vars >>

\* ------------------------------------------------- sampler (TakeSamples)

\* Thread `id` is inside ~ThreadSamplingData, in the receiver's HandleOutput.
InHandleOutput(id) ==
  \E t \in Workers :
    /\ hpc[t] \in {"called", "writing"}
    /\ sampling_data[t].thread_id_ = id

\* Mutant: the loop never reads Ext::keep_sampling.
SamplerLoop_Forever(s) ==
  /\ ~crashed
  /\ spc[s] = "loop"
  /\ sampler_sync = NoThreadId
  /\ passes < MaxPasses
  /\ sampler_sync' = SamplerThreadId(s)
  /\ passes' = passes + 1
  /\ spc' = [spc EXCEPT ![s] = "scan"]
  /\ sidx' = [sidx EXCEPT ![s] = 1]
  /\ UNCHANGED << ext_vars, output_vars, samplers, object_vars, worker_vars,
                  joinable, caller_vars, crashed >>

\* Mutant: the pass over the registry is made without Ext::sampler_sync.
SamplerLoop_NoLock(s) ==
  /\ ~crashed
  /\ spc[s] = "loop"
  /\ IF keep_sampling
       THEN /\ passes < MaxPasses
            /\ passes' = passes + 1
            /\ spc' = [spc EXCEPT ![s] = "scan"]
            /\ sidx' = [sidx EXCEPT ![s] = 1]
       ELSE /\ spc' = [spc EXCEPT ![s] = "exited"]
            /\ sidx' = [sidx EXCEPT ![s] = 0]
            /\ UNCHANGED passes
  /\ UNCHANGED << ext_vars, output_vars, registry_vars, object_vars,
                  worker_vars, joinable, caller_vars, crashed >>

\* while (Ext::keep_sampling): the flag reads true, the pass takes
\* Ext::sampler_sync and starts at the first entry; the flag reads false,
\* the thread function returns.  (A pass that read the flag before a Stop
\* cleared it is the same pass begun just before that Stop.)
SamplerLoop(s) ==
  /\ ~crashed
  /\ spc[s] = "loop"
  /\ IF keep_sampling
       THEN /\ sampler_sync = NoThreadId
            /\ passes < MaxPasses
            /\ sampler_sync' = SamplerThreadId(s)
            /\ passes' = passes + 1
            /\ spc' = [spc EXCEPT ![s] = "scan"]
            /\ sidx' = [sidx EXCEPT ![s] = 1]
       ELSE /\ spc' = [spc EXCEPT ![s] = "exited"]
            /\ sidx' = [sidx EXCEPT ![s] = 0]
            /\ UNCHANGED << sampler_sync, passes >>
  /\ UNCHANGED << ext_vars, output_vars, samplers, object_vars, worker_vars,
                  joinable, caller_vars, crashed >>

\* Mutant: the pass erases a registry entry whose state is gone.
SamplerScan_Erase(s) ==
  /\ ~crashed
  /\ spc[s] = "scan"
  /\ ~InHandleOutput(SamplerThreadId(s))
  /\ IF sidx[s] > Len(samplers)
       THEN /\ sampler_sync' = NoThreadId
            /\ spc' = [spc EXCEPT ![s] = "loop"]
            /\ sidx' = [sidx EXCEPT ![s] = 0]
            /\ UNCHANGED << refs, samplers >>
       ELSE /\ IF state[samplers[sidx[s]]] = "alive"
                 THEN /\ refs' = [refs EXCEPT ![samplers[sidx[s]]] =
                                     @ \cup {SamplerThreadId(s)}]
                      /\ spc' = [spc EXCEPT ![s] = "locked"]
                      /\ UNCHANGED samplers
                 ELSE /\ samplers' = SubSeq(samplers, 1, sidx[s] - 1)
                                       \o SubSeq(samplers, sidx[s] + 1, Len(samplers))
                      /\ UNCHANGED << refs, spc >>
            /\ UNCHANGED << sidx, sampler_sync >>
  /\ UNCHANGED << ext_vars, output_vars, sampling_data, state, handled, hpc,
                  visits, worker_vars, joinable, passes, caller_vars, crashed >>

\* Mutant: the registry holds plain pointers; the pass takes the next entry
\* as it is, without sampler.lock() and its test.
SamplerScan_NoLock(s) ==
  /\ ~crashed
  /\ spc[s] = "scan"
  /\ ~InHandleOutput(SamplerThreadId(s))
  /\ IF sidx[s] > Len(samplers)
       THEN /\ sampler_sync' = NoThreadId
            /\ spc' = [spc EXCEPT ![s] = "loop"]
            /\ sidx' = [sidx EXCEPT ![s] = 0]
       ELSE /\ spc' = [spc EXCEPT ![s] = "locked"]
            /\ UNCHANGED << sidx, sampler_sync >>
  /\ UNCHANGED << ext_vars, output_vars, samplers, object_vars, worker_vars,
                  joinable, passes, caller_vars, crashed >>

\* The range-for over Ext::samplers: sampler.lock() on the next entry, or the
\* end of the pass, where the lock_guard releases Ext::sampler_sync.
SamplerScan(s) ==
  /\ ~crashed
  /\ spc[s] = "scan"
  /\ ~InHandleOutput(SamplerThreadId(s))
  /\ IF sidx[s] > Len(samplers)
       THEN /\ sampler_sync' = NoThreadId
            /\ spc' = [spc EXCEPT ![s] = "loop"]
            /\ sidx' = [sidx EXCEPT ![s] = 0]
            /\ UNCHANGED refs
       ELSE /\ IF state[samplers[sidx[s]]] = "alive"
                 THEN /\ refs' = [refs EXCEPT ![samplers[sidx[s]]] =
                                     @ \cup {SamplerThreadId(s)}]
                      /\ spc' = [spc EXCEPT ![s] = "locked"]
                      /\ UNCHANGED sidx
                 ELSE /\ sidx' = [sidx EXCEPT ![s] = @ + 1]
                      /\ UNCHANGED << refs, spc >>
            /\ UNCHANGED sampler_sync
  /\ UNCHANGED << ext_vars, output_vars, samplers, sampling_data, state,
                  handled, hpc, visits, worker_vars, joinable, passes,
                  caller_vars, crashed >>

\* shared_sampler->TakeSample()
SamplerTakeSample(s) ==
  /\ ~crashed
  /\ spc[s] = "locked"
  /\ sampling_data' = [sampling_data EXCEPT ![samplers[sidx[s]]] = TakeSample(@)]
  /\ visits' = [visits EXCEPT ![samplers[sidx[s]]] = @ + 1]
  /\ spc' = [spc EXCEPT ![s] = "sampled"]
  /\ UNCHANGED << ext_vars, output_vars, registry_vars, state, refs, handled,
                  hpc, worker_vars, sidx, joinable, passes, caller_vars, crashed
                  >>

\* shared_sampler goes out of scope at the end of the loop body.
SamplerRelease(s) ==
  /\ ~crashed
  /\ spc[s] = "sampled"
  /\ Release(samplers[sidx[s]], SamplerThreadId(s))
  /\ spc' = [spc EXCEPT ![s] = "scan"]
  /\ sidx' = [sidx EXCEPT ![s] = @ + 1]
  /\ UNCHANGED << ext_vars, output_vars, registry_vars, visits, worker_vars,
                  joinable, passes, caller_vars >>

\* ------------------------------------------------ DefaultOutputReceiver

\* The lines of out_ written by the HandleOutput call for object t.
Written(t) == Cardinality({i \in DOMAIN out_ : out_[i].tree = t})

\* Mutant: HandleOutput without its lock_guard on output_sync_.
HandleOutputLock_NoLock(t) ==
  /\ ~crashed
  /\ hpc[t] = "called"
  /\ output_sync_' = sampling_data[t].thread_id_
  /\ hpc' = [hpc EXCEPT ![t] = "writing"]
  /\ UNCHANGED << ext_vars, registry_vars, sampling_data, state, refs, handled,
                  visits, worker_vars, sampler_vars, caller_vars, crashed, out_
                  >>

\* HandleOutput(output) for the tree of object t, called by the thread that
\* runs its destructor: std::lock_guard lk(output_sync_).
HandleOutputLock(t) ==
  /\ ~crashed
  /\ hpc[t] = "called"
  /\ output_sync_ = NoThreadId
  /\ output_sync_' = sampling_data[t].thread_id_
  /\ hpc' = [hpc EXCEPT ![t] = "writing"]
  /\ UNCHANGED << ext_vars, registry_vars, sampling_data, state, refs, handled,
                  visits, worker_vars, sampler_vars, caller_vars, crashed, out_
                  >>

\* out_ << ... << std::endl: the next line of the tree of object t.
HandleOutputWrite(t) ==
  /\ ~crashed
  /\ hpc[t] = "writing"
  /\ Written(t) < Len(OutputLines(sampling_data[t]))
  /\ out_' = Append(out_, [tree |-> t,
                           line |-> OutputLines(sampling_data[t])[Written(t) + 1]])
  /\ UNCHANGED << ext_vars, registry_vars, object_vars, worker_vars,
                  sampler_vars, caller_vars, crashed, output_sync_ >>

\* Mutant: HandleOutput returns with output_sync_ still locked.
HandleOutputReturn_NoUnlock(t) ==
  /\ ~crashed
  /\ hpc[t] = "writing"
  /\ Written(t) = Len(OutputLines(sampling_data[t]))
  /\ hpc' = [hpc EXCEPT ![t] = "returned"]
  /\ UNCHANGED << ext_vars, registry_vars, sampling_data, state, refs,
                  handled, visits, worker_vars, sampler_vars, caller_vars,
                  crashed, output_vars >>

\* HandleOutput returns: the lock_guard releases output_sync_.
HandleOutputReturn(t) ==
  /\ ~crashed
  /\ hpc[t] = "writing"
  /\ Written(t) = Len(OutputLines(sampling_data[t]))
  /\ output_sync_' = NoThreadId
  /\ hpc' = [hpc EXCEPT ![t] = "returned"]
  /\ UNCHANGED << ext_vars, registry_vars, sampling_data, state, refs, handled,
                  visits, worker_vars, sampler_vars, caller_vars, crashed, out_
                  >>

\* ------------------------------------------------------- Init and Stop

\* A sampler thread id not used yet.
FreshSampler == CHOOSE s \in SamplerIds :
  /\ spc[s] = "none"
  /\ \A r \in SamplerIds : spc[r] = "none" => s <= r

\* Caller c returns from its call.
Return(c, how) ==
  /\ cpc' = [cpc EXCEPT ![c] = "idle"]
  /\ carg' = [carg EXCEPT ![c] = None]
  /\ last_return' = [last_return EXCEPT ![c] = how]

\* Caller c calls Init(receiver = k).
InitCall(c, k) ==
  /\ ~crashed
  /\ cpc[c] = "idle"
  /\ cpc' = [cpc EXCEPT ![c] = "init_check"]
  /\ carg' = [carg EXCEPT ![c] = k]
  /\ UNCHANGED << ext_vars, output_vars, registry_vars, object_vars,
                  worker_vars, sampler_vars, joins, last_return, stop_returned,
                  crashed >>

\* Mutant: Init without its check of Ext::sampling_worker.
InitCheck_Always(c) ==
  /\ ~crashed
  /\ cpc[c] = "init_check"
  /\ cpc' = [cpc EXCEPT ![c] = "init_install"]
  /\ UNCHANGED << ext_vars, output_vars, registry_vars, object_vars,
                  worker_vars, sampler_vars, carg, joins, last_return,
                  stop_returned, crashed >>

\* if (!Ext::sampling_worker)
InitCheck(c) ==
  /\ ~crashed
  /\ cpc[c] = "init_check"
  /\ IF sampling_worker = None
       THEN /\ cpc' = [cpc EXCEPT ![c] = "init_install"]
            /\ UNCHANGED << carg, last_return >>
       ELSE Return(c, "init_noop")
  /\ UNCHANGED << ext_vars, output_vars, registry_vars, object_vars,
                  worker_vars, sampler_vars, joins, stop_returned, crashed >>

\* Ext::receiver = std::move(receiver)
InitInstall(c) ==
  /\ ~crashed
  /\ cpc[c] = "init_install"
  /\ receiver' = carg[c]
  /\ cpc' = [cpc EXCEPT ![c] = "init_spawn"]
  /\ UNCHANGED << keep_sampling, sampling_worker, output_vars, registry_vars,
                  object_vars, worker_vars, sampler_vars, carg, joins,
                  last_return, stop_returned, crashed >>

\* Ext::sampling_worker = std::make_unique<std::thread>(&TakeSamples): the new
\* thread starts at the head of its loop.  Assigning over a handle that is
\* still joinable runs ~thread on it, which calls std::terminate.
InitSpawn(c) ==
  /\ ~crashed
  /\ cpc[c] = "init_spawn"
  /\ sampling_worker' = FreshSampler
  /\ spc' = [spc EXCEPT ![FreshSampler] = "loop"]
  /\ joinable' = [joinable EXCEPT ![FreshSampler] = TRUE]
  /\ crashed' = (sampling_worker # None /\ joinable[sampling_worker])
  /\ Return(c, "init_started")
  /\ UNCHANGED << keep_sampling, receiver, output_vars, registry_vars,
                  object_vars, worker_vars, sidx, passes, joins, stop_returned
                  >>

\* Caller c calls Stop().
StopCall(c) ==
  /\ ~crashed
  /\ cpc[c] = "idle"
  /\ cpc' = [cpc EXCEPT ![c] = "stop_check"]
  /\ UNCHANGED << ext_vars, output_vars, registry_vars, object_vars,
                  worker_vars, sampler_vars, carg, joins, last_return,
                  stop_returned, crashed >>

\* Mutant: Stop checks the thread handle but not Ext::keep_sampling.
StopCheck_NoFlag(c) ==
  /\ ~crashed
  /\ cpc[c] = "stop_check"
  /\ IF sampling_worker # None
       THEN /\ cpc' = [cpc EXCEPT ![c] = "stop_clear"]
            /\ UNCHANGED << carg, last_return, stop_returned >>
       ELSE /\ Return(c, "stop_noop")
            /\ stop_returned' = TRUE
  /\ UNCHANGED << ext_vars, output_vars, registry_vars, object_vars,
                  worker_vars, sampler_vars, joins, crashed >>

\* if (Ext::keep_sampling && Ext::sampling_worker)
StopCheck(c) ==
  /\ ~crashed
  /\ cpc[c] = "stop_check"
  /\ IF keep_sampling /\ sampling_worker # None
       THEN /\ cpc' = [cpc EXCEPT ![c] = "stop_clear"]
            /\ UNCHANGED << carg, last_return, stop_returned >>
       ELSE /\ Return(c, "stop_noop")
            /\ stop_returned' = TRUE
  /\ UNCHANGED << ext_vars, output_vars, registry_vars, object_vars,
                  worker_vars, sampler_vars, joins, crashed >>

\* Ext::keep_sampling = false
StopClear(c) ==
  /\ ~crashed
  /\ cpc[c] = "stop_clear"
  /\ keep_sampling' = FALSE
  /\ cpc' = [cpc EXCEPT ![c] = "stop_join"]
  /\ UNCHANGED << sampling_worker, receiver, output_vars, registry_vars,
                  object_vars, worker_vars, sampler_vars, carg, joins,
                  last_return, stop_returned, crashed >>

\* Mutant: Stop returns without waiting for the sampler thread (a detach).
StopJoin_NoWait(c) ==
  /\ ~crashed
  /\ cpc[c] = "stop_join"
  /\ joinable' = [joinable EXCEPT ![sampling_worker] = FALSE]
  /\ joins' = joins + 1
  /\ Return(c, "stop_joined")
  /\ stop_returned' = TRUE
  /\ UNCHANGED << ext_vars, output_vars, registry_vars, object_vars,
                  worker_vars, spc, sidx, passes, crashed >>

\* Ext::sampling_worker->join(): returns once the sampler thread has ended.
\* On a handle that is no longer joinable join() throws std::system_error,
\* which nothing catches.
StopJoin(c) ==
  /\ ~crashed
  /\ cpc[c] = "stop_join"
  /\ IF joinable[sampling_worker]
       THEN /\ spc[sampling_worker] = "exited"
            /\ joinable' = [joinable EXCEPT ![sampling_worker] = FALSE]
            /\ joins' = joins + 1
            /\ Return(c, "stop_joined")
            /\ stop_returned' = TRUE
            /\ UNCHANGED crashed
       ELSE /\ crashed' = TRUE
            /\ UNCHANGED << joinable, joins, cpc, carg, last_return,
                            stop_returned >>
  /\ UNCHANGED << ext_vars, output_vars, registry_vars, object_vars,
                  worker_vars, spc, sidx, passes >>

\* ------------------------------------------------------ specifications

\* A step of worker t in a program that uses the scope names `names` and
\* nests its scopes at most `depth` deep.
WorkerStep(t, names, depth) ==
  \/ CreateSamplingData(t)
  \/ \E name \in names : Len(scopes[t]) < depth /\ Enter(t, name)
  \/ Exit(t)
  \/ ThreadExit(t)

SamplerStep(s) ==
  \/ SamplerLoop(s)
  \/ SamplerScan(s)
  \/ SamplerTakeSample(s)
  \/ SamplerRelease(s)

InitStep(c) ==
  \/ \E k \in Sinks : InitCall(c, k)
  \/ InitCheck(c)
  \/ InitInstall(c)
  \/ InitSpawn(c)

StopStep(c) ==
  \/ StopCall(c)
  \/ StopCheck(c)
  \/ StopClear(c)
  \/ StopJoin(c)

\* The whole profiler: one thread calls Init and Stop in any order, at any
\* time, while one worker uses scope markers and ends.
Init == InitWith({1}, {1})

Next ==
  \/ \E t \in Workers : WorkerStep(t, Names, MaxDepth)
  \/ \E s \in SamplerIds : SamplerStep(s)
  \/ \E c \in Callers : InitStep(c)
  \/ \E c \in Callers : StopStep(c)

Spec == Init /\ [][Next]_vars

\* The state in which Init(k) has just returned to its caller, reached from
\* InitWith by InitCall, InitCheck, InitInstall and InitSpawn alone.
Started(k, workers) ==
  /\ keep_sampling = TRUE
  /\ sampling_worker = 1
  /\ sampler_sync = NoThreadId
  /\ samplers = <<>>
  /\ receiver = k
  /\ sampling_data = [t \in Workers |-> NewThreadSamplingData]
  /\ state = [t \in Workers |-> "absent"]
  /\ refs = [t \in Workers |-> {}]
  /\ tpc = [t \in Workers |-> IF t \in workers THEN "start" ELSE "exited"]
  /\ scopes = [t \in Workers |-> <<>>]
  /\ spc = [s \in SamplerIds |-> IF s = 1 THEN "loop" ELSE "none"]
  /\ sidx = [s \in SamplerIds |-> 0]
  /\ joinable = [s \in SamplerIds |-> s = 1]
  /\ passes = 0
  /\ cpc = [c \in Callers |-> IF c = 1 THEN "idle" ELSE "done"]
  /\ carg = [c \in Callers |-> None]
  /\ handled = [t \in Workers |-> <<>>]
  /\ visits = [t \in Workers |-> 0]
  /\ joins = 0
  /\ last_return = [c \in Callers |-> IF c = 1 THEN "init_started" ELSE "none"]
  /\ stop_returned = FALSE
  /\ crashed = FALSE
  /\ hpc = [t \in Workers |-> "none"]
  /\ output_sync_ = NoThreadId
  /\ out_ = <<>>

\* The example program (examples/basic_example.cpp) between its LURIEN_INIT
\* and its LURIEN_STOP: the sampler runs, the workers use scope markers and
\* end, and nobody calls Init or Stop.
InitThreads == Started(1, Workers)

NextThreads ==
  \/ \E t \in Workers : WorkerStep(t, Names, MaxDepth)
  \/ \E s \in SamplerIds : SamplerStep(s)

SpecThreads == InitThreads /\ [][NextThreads]_vars

\* One worker with deeper nesting and a scope name whose hash collides with
\* a path of two others, while the sampler runs.
InitTree == Started(1, {1})

NextTree ==
  \/ \E t \in Workers : WorkerStep(t, TreeNames, MaxTreeDepth)
  \/ \E s \in SamplerIds : SamplerStep(s)

SpecTree == InitTree /\ [][NextTree]_vars

\* The example program with the library's own receiver installed: every
\* destructor prints its tree through DefaultOutputReceiver::HandleOutput.
HandleOutputStep(t) ==
  \/ HandleOutputLock(t)
  \/ HandleOutputWrite(t)
  \/ HandleOutputReturn(t)

InitOutput == Started(DefaultOutputReceiver, Workers)

NextOutput ==
  \/ \E t \in Workers : WorkerStep(t, Names, MaxDepth)
  \/ \E s \in SamplerIds : SamplerStep(s)
  \/ \E t \in Workers : HandleOutputStep(t)

SpecOutput == InitOutput /\ [][NextOutput]_vars

\* One worker that calls Update with any names in any order, while the
\* sampler runs.
CallsStep(t) ==
  \/ CreateSamplingData(t)
  \/ \E name \in AnyNames : UpdateCall(t, name)
  \/ ThreadExit(t)

InitCalls == Started(1, {1})

NextCalls ==
  \/ \E t \in Workers : CallsStep(t)
  \/ \E s \in SamplerIds : SamplerStep(s)

SpecCalls == InitCalls /\ [][NextCalls]_vars

\* The example program up to its end: the workers use scope markers and end,
\* every destructor prints through the DefaultOutputReceiver, and the main
\* thread calls LURIEN_STOP at any time.
InitStop == Started(DefaultOutputReceiver, Workers)

NextStop ==
  \/ \E t \in Workers : WorkerStep(t, Names, MaxDepth)
  \/ \E s \in SamplerIds : SamplerStep(s)
  \/ \E t \in Workers : HandleOutputStep(t)
  \/ \E c \in Callers : StopStep(c)

SpecStop == InitStop /\ [][NextStop]_vars

\* Two threads call Init and Stop in any order, at any time, also at the
\* same time, while one worker uses scope markers and ends.
InitRace == InitWith(Callers, {1})

NextRace ==
  \/ \E t \in Workers : WorkerStep(t, Names, MaxDepth)
  \/ \E s \in SamplerIds : SamplerStep(s)
  \/ \E c \in Callers : InitStep(c)
  \/ \E c \in Callers : StopStep(c)

SpecRace == InitRace /\ [][NextRace]_vars

\* The profiler with the scheduling the platform gives it: the sampler thread
\* keeps running until its thread function returns, and a thread inside Stop
\* keeps executing it.  Calls of Init and Stop, and what the workers do, are
\* the application's choice and carry no fairness.
LiveSpec ==
  /\ Spec
  /\ \A s \in SamplerIds : WF_vars(SamplerStep(s))
  /\ \A c \in Callers : WF_vars(StopCheck(c) \/ StopClear(c) \/ StopJoin(c))

\* ---------------------------------------------------------- vocabulary

\* The tree of object t.
Nodes(t) == sampling_data[t].scope_outputs_

\* The indices of the children of node p in a tree.
Children(nodes, p) == {i \in DOMAIN nodes : nodes[i].parent = p}

\* The sum of samples_ over the nodes with indices in S.
RECURSIVE SumSamples(_, _)
SumSamples(nodes, S) ==
  IF S = {} THEN 0
  ELSE LET i == CHOOSE x \in S : TRUE
       IN  nodes[i].samples_ + SumSamples(nodes, S \ {i})

\* p <= q on doubles; false when either is not a number.
LessEq(p, q) ==
  /\ p.kind = "num"
  /\ q.kind = "num"
  /\ p.n * q.d <= q.n * p.d

\* A sampler loop thread is executing and the flag tells it to go on.
Running ==
  /\ keep_sampling
  /\ \E s \in SamplerIds : spc[s] \notin {"none", "exited"}

\* No sampler loop thread is executing.
Stopped == \A s \in SamplerIds : spc[s] \in {"none", "exited"}

\* All but the last element of a sequence.
Front(q) == SubSeq(q, 1, Len(q) - 1)

\* ------------------------------------------------------------------ C1

\* C1: after accumulation, every node's sample count is at least the sum of
\* its children's accumulated counts and at most the thread's total_samples;
\* the proportion stored in every node is the quotient of these two, so
\* that, whenever it is a number, it is at most 1 and at least the
\* proportion of every child.
C1_AccumulatedBounds ==
  \A t \in Workers :
    state[t] = "destroyed" =>
      LET nodes == Nodes(t)
          total == sampling_data[t].total_samples_
      IN  \A i \in DOMAIN nodes :
            /\ nodes[i].samples_ >= SumSamples(nodes, Children(nodes, i))
            /\ nodes[i].samples_ <= total
            /\ nodes[i].cpu_proportion_ = Divide(nodes[i].samples_, total)
            /\ total > 0 =>
                 /\ LessEq(nodes[i].cpu_proportion_, Double(1, 1))
                 /\ \A j \in Children(nodes, i) :
                      LessEq(nodes[j].cpu_proportion_, nodes[i].cpu_proportion_)

\* A destroyed object in whose tree an inner scope was sampled and the scope
\* around it has a larger accumulated count.
C1_Witness ==
  \E t \in Workers :
    /\ state[t] = "destroyed"
    /\ \E i, j \in DOMAIN Nodes(t) :
         /\ Nodes(t)[j].parent = i
         /\ Nodes(t)[j].samples_ > 0
         /\ Nodes(t)[i].samples_ > Nodes(t)[j].samples_

\* ------------------------------------------------------------------ C2

\* C2: when an object whose total_samples_ is 0 is destroyed, no division by
\* zero happens: either nothing is emitted, or every node of the emitted
\* tree has proportion 0; and the destruction does not fail.
C2_ZeroTotalIsGuarded ==
  \A t \in Workers :
    (state[t] = "destroyed" /\ sampling_data[t].total_samples_ = 0) =>
      /\ ~crashed
      /\ \/ handled[t] = <<>>
         \/ \A i \in DOMAIN Nodes(t) :
              /\ Nodes(t)[i].cpu_proportion_.kind = "num"
              /\ Nodes(t)[i].cpu_proportion_.n = 0

\* ------------------------------------------------------------------ C3

\* C3: a step of one thread (it starts, enters or leaves a scope, ends) or a
\* sample of one thread's object leaves every other thread's object as it
\* was; while a thread lives its object's path id is the XOR of its own live
\* scopes; and a destroyed object's total is the number of samples taken of
\* that very object, its top-level counts summing to no more than that.
C3_Isolation ==
  /\ [][\A t \in Workers :
          (tpc'[t] # tpc[t] \/ scopes'[t] # scopes[t] \/ visits'[t] # visits[t])
            => \A u \in Workers \ {t} : sampling_data'[u] = sampling_data[u]]_vars
  /\ [](\A t \in Workers :
          /\ tpc[t] = "run" =>
               sampling_data[t].current_scope_hash_ = PathId(scopes[t])
          /\ state[t] = "destroyed" =>
               /\ sampling_data[t].total_samples_ = visits[t]
               /\ SumSamples(Nodes(t), Children(Nodes(t), None)) <= visits[t])

\* Two threads are inside a scope of the same name, and one of them has been
\* sampled there while the other has not.
C3_Witness ==
  \E t, u \in Workers :
    /\ t # u
    /\ scopes[t] # <<>> /\ scopes[u] = scopes[t]
    /\ Nodes(t) # <<>> /\ Nodes(u) # <<>>
    /\ Nodes(t)[1].samples_ > 0
    /\ Nodes(u)[1].samples_ = 0
    /\ visits[u] > 0

\* ------------------------------------------------------------------ C4

\* C4: the sink's HandleOutput is invoked exactly once for every object:
\* never twice, and once the object has been destroyed (its thread has ended
\* and its destructor has run) never zero times.
C4_EmittedExactlyOnce ==
  \A t \in Workers :
    /\ Len(handled[t]) <= 1
    /\ state[t] = "destroyed" => Len(handled[t]) = 1

\* ------------------------------------------------------------------ C5

\* C5: an Init whose check is made while the sampler is running returns at
\* once and changes nothing: no thread is spawned, the thread handle, the
\* flag and the installed sink stay as they are; and no Init is ever past its
\* check while the sampler is running.
C5_InitIdempotent ==
  /\ [][\A c \in Callers :
          (cpc[c] = "init_check" /\ cpc'[c] # "init_check" /\ Running) =>
             /\ cpc'[c] = "idle"
             /\ UNCHANGED << receiver, sampling_worker, keep_sampling, spc,
                             joinable >>]_vars
  /\ [](\A c \in Callers : cpc[c] \in {"init_install", "init_spawn"} => ~Running)

\* An Init has returned without effect while the sampler is running.
C5_Witness ==
  /\ Running
  /\ receiver # None
  /\ \E c \in Callers : last_return[c] = "init_noop"

\* ------------------------------------------------------------------ C6

\* C6: with one caller, a Stop whose check finds the sampler not running
\* returns at once and changes nothing; the sampler thread is joined at most
\* once and no join is made on a handle that cannot be joined; and a caller
\* waiting in join is never stuck: the sampler thread can take a step, or
\* the join can return.
C6_StopSafe ==
  /\ [][\A c \in Callers :
          (cpc[c] = "stop_check" /\ cpc'[c] # "stop_check" /\ ~Running) =>
             /\ cpc'[c] = "idle"
             /\ UNCHANGED << receiver, sampling_worker, keep_sampling, spc,
                             joinable, joins >>]_vars
  /\ [](/\ joins <= 1
        /\ \A c \in Callers :
             cpc[c] = "stop_join" =>
               /\ ~crashed
               /\ joinable[sampling_worker]
               /\ \/ ENABLED StopJoin(c)
                  \/ ENABLED SamplerStep(sampling_worker))

\* A Stop has returned without effect after an earlier Stop joined the
\* sampler thread.
C6_Witness ==
  /\ joins = 1
  /\ \E c \in Callers : last_return[c] = "stop_noop"

\* ------------------------------------------------------------------ C7

\* No sample is taken in this step: no total_samples_ changes and no node's
\* samples_ changes while its object lives.
NoSampleTaken ==
  \A t \in Workers :
    /\ sampling_data'[t].total_samples_ = sampling_data[t].total_samples_
    /\ visits'[t] = visits[t]
    /\ (state[t] = "alive" /\ state'[t] = "alive") =>
         \A i \in DOMAIN Nodes(t) :
           sampling_data'[t].scope_outputs_[i].samples_ = Nodes(t)[i].samples_

\* C7 as claimed: whenever a Stop call returns, no sampler loop thread is
\* executing, and once any Stop call has returned no sample is ever taken
\* again.
C7_AfterAnyStop ==
  /\ [][\A c \in Callers :
          (cpc[c] \in {"stop_check", "stop_join"} /\ cpc'[c] = "idle") =>
             Stopped]_vars
  /\ [][stop_returned => NoSampleTaken]_vars

\* C7, amended: a Stop call that found the sampler running (it passed its
\* check and joined) returns only when the sampler loop thread has exited,
\* and once such a Stop has returned no sample is ever taken again.
C7_AfterJoiningStop ==
  /\ [][\A c \in Callers :
          (cpc[c] = "stop_join" /\ cpc'[c] = "idle") =>
             spc[sampling_worker] = "exited"]_vars
  /\ [](joins >= 1 => Stopped)
  /\ [][joins >= 1 => NoSampleTaken]_vars

\* A joining Stop has returned while a sampled object is still alive and its
\* thread is inside a scope.
C7_Witness ==
  /\ joins >= 1
  /\ \E t \in Workers :
       /\ state[t] = "alive"
       /\ visits[t] > 0
       /\ scopes[t] # <<>>

\* ------------------------------------------------------------------ C8

\* C8: a Stop that has passed its check (the sampler was running) leads to
\* the sampler loop thread having exited and that Stop having returned.
C8_StopReturns ==
  \A c \in Callers :
    (cpc[c] \in {"stop_clear", "stop_join"})
      ~> (cpc[c] = "idle" /\ Stopped /\ last_return[c] = "stop_joined")

\* A Stop called while the sampler was in the middle of a pass has returned.
C8_Witness ==
  /\ \E c \in Callers : last_return[c] = "stop_joined" /\ cpc[c] = "idle"
  /\ passes > 0
  /\ \A s \in SamplerIds : spc[s] \in {"none", "exited"}

\* ------------------------------------------------------------------ C9

\* C9: an Init call that is made while the sampler is stopped (no sampler
\* loop thread is executing) returns with the sink it was given installed
\* and with a sampler loop thread running.
C9_InitFromStopped ==
  [][\A c \in Callers :
       (cpc[c] \in {"init_check", "init_spawn"} /\ cpc'[c] = "idle" /\ Stopped) =>
          /\ receiver' = carg[c]
          /\ Running']_vars

\* ----------------------------------------------------------------- C10

\* Thread t enters a scope in this step.
Entering(t) == Len(scopes'[t]) = Len(scopes[t]) + 1

\* The name thread t enters in this step.
Entered(t) == scopes'[t][Len(scopes'[t])]

\* The names of the scopes thread t is inside.
Active(t) == {scopes[t][i] : i \in DOMAIN scopes[t]}

\* C10 as claimed: entering a name that is active anywhere on the call path
\* takes the path id back to the id of an enclosing level of that path and
\* creates no node.
C10_AnyReentryCancels ==
  [][\A t \in Workers :
       (Entering(t) /\ Entered(t) \in Active(t)) =>
          /\ sampling_data'[t].scope_outputs_ = Nodes(t)
          /\ \E n \in 0 .. (Len(scopes[t]) - 1) :
               sampling_data'[t].current_scope_hash_ =
                 PathId(SubSeq(scopes[t], 1, n))]_vars

\* C10, amended: entering the name of the innermost active scope (direct
\* re-entry) takes the path id back to the parent path id, the id of the
\* call path without that innermost scope, makes the parent's node the
\* current one and creates no node and no table entry.
C10_DirectReentryCancels ==
  [][\A t \in Workers :
       (Entering(t) /\ scopes[t] # <<>> /\ Entered(t) = scopes[t][Len(scopes[t])]) =>
          LET parent_id == PathId(Front(scopes[t]))
          IN  /\ sampling_data'[t].current_scope_hash_ = parent_id
              /\ sampling_data'[t].scope_outputs_ = Nodes(t)
              /\ sampling_data'[t].scope_data_ = sampling_data[t].scope_data_
              /\ sampling_data'[t].current_scope_ =
                   IF parent_id = 0 THEN None
                   ELSE sampling_data[t].scope_data_[parent_id]]_vars

\* A thread has re-entered the scope it was directly inside, below another
\* scope: the path id is that of the outer scope alone and the tree has no
\* third level.
C10_Witness ==
  \E t \in Workers :
    /\ scopes[t] = <<"b", "a", "a">>
    /\ sampling_data[t].current_scope_hash_ = hash_fn_("b")
    /\ Len(Nodes(t)) = 2

\* ----------------------------------------------------------------- C11

\* C11: from every reachable state of a thread's sampling state and for
\* every name, Update(name) applied twice in succession leaves
\* current_scope_hash_ and current_scope_ as they were before the first
\* call; the path id is always the XOR of the hashes of the live scopes, so
\* that a thread that has closed every Scope it opened (balanced pairs from
\* outside any scope) is back at path id 0 with no current node.
C11_XorSelfInverse ==
  \A t \in Workers :
    state[t] = "alive" =>
      LET d == sampling_data[t]
      IN  /\ \A name \in TreeNames \cup {ZeroName} :
               LET twice == Update(Update(d, name), name)
               IN  /\ twice.current_scope_hash_ = d.current_scope_hash_
                   /\ twice.current_scope_ = d.current_scope_
          /\ d.current_scope_hash_ = PathId(scopes[t])
          /\ scopes[t] = <<>> =>
               /\ d.current_scope_hash_ = 0
               /\ d.current_scope_ = None

\* A thread is outside any scope again after nested pairs that built a tree
\* two levels deep.
C11_Witness ==
  \E t \in Workers :
    /\ state[t] = "alive"
    /\ tpc[t] = "run"
    /\ scopes[t] = <<>>
    /\ \E i \in DOMAIN Nodes(t) : Nodes(t)[i].parent # None
    /\ sampling_data[t].current_scope_hash_ = 0
    /\ sampling_data[t].current_scope_ = None

\* ----------------------------------------------------------------- C12

\* The call path a node of a tree stands for: the names from the top-level
\* scope down to the node.
RECURSIVE TreePath(_, _)
TreePath(nodes, i) ==
  IF i = None THEN <<>>
  ELSE Append(TreePath(nodes, nodes[i].parent), nodes[i].name_)

\* The step is a TakeSample call on object t.
Sampled(t) == visits'[t] = visits[t] + 1

\* C12 (as stated): every sampler visit raises total_samples_ by one and the
\* count of the node of call path X by one exactly when X is the call path
\* live in the thread at the visit; so total_samples_ is the number n of
\* visits and the count of the node of X, before accumulation, is the number
\* k of visits made while X was live.
C12_ExactPathAttribution ==
  [][\A t \in Workers :
       Sampled(t) =>
         /\ sampling_data'[t].total_samples_ = visits'[t]
         /\ \A i \in DOMAIN Nodes(t) :
              sampling_data'[t].scope_outputs_[i].samples_ =
                Nodes(t)[i].samples_
                  + (IF TreePath(Nodes(t), i) = scopes[t] THEN 1 ELSE 0)]_vars

\* C12 (amended): every sampler visit raises total_samples_ by one and the
\* count of a node by one exactly when the XOR path id of the live call path
\* is the id the node is stored under; total_samples_ is the number n of
\* visits, and the count of the node of X, before accumulation, is the
\* number of visits made while a call path with the path id of X was live.
C12_PathIdAttribution ==
  [][\A t \in Workers :
       Sampled(t) =>
         LET d == sampling_data[t]
             h == PathId(scopes[t])
         IN  /\ sampling_data'[t].total_samples_ = visits'[t]
             /\ \A i \in DOMAIN Nodes(t) :
                  sampling_data'[t].scope_outputs_[i].samples_ =
                    Nodes(t)[i].samples_
                      + (IF h \in Keys(d) /\ d.scope_data_[h] = i
                           THEN 1 ELSE 0)]_vars

\* A thread was visited twice, once inside the scope "a" and once outside.
C12_Witness ==
  \E t \in Workers :
    /\ state[t] = "alive"
    /\ visits[t] = 2
    /\ sampling_data[t].total_samples_ = 2
    /\ \E i \in DOMAIN Nodes(t) :
         /\ TreePath(Nodes(t), i) = << "a" >>
         /\ Nodes(t)[i].samples_ = 1
    /\ \A i \in DOMAIN Nodes(t) :
         TreePath(Nodes(t), i) # << "a" >> => Nodes(t)[i].samples_ = 0

\* ----------------------------------------------------------------- C13

\* The lines of out_ written for the tree of object t, in order.
RECURSIVE LinesOf(_, _)
LinesOf(lines, t) ==
  IF lines = <<>> THEN <<>>
  ELSE IF Head(lines).tree = t
    THEN << Head(lines).line >> \o LinesOf(Tail(lines), t)
  ELSE LinesOf(Tail(lines), t)

\* C13: the HandleOutput executions of the DefaultOutputReceiver exclude one
\* another: at most one thread is between the lock_guard and the return, and
\* it holds output_sync_; the lines written for one tree are contiguous in
\* out_, never interleaved with those of another tree, and once HandleOutput
\* has returned they are the header and every node line of that tree.
C13_OutputSerialized ==
  /\ \A t, u \in Workers : hpc[t] = "writing" /\ hpc[u] = "writing" => t = u
  /\ \A t \in Workers :
       hpc[t] = "writing" => output_sync_ = sampling_data[t].thread_id_
  /\ \A i, j, k \in DOMAIN out_ :
       (i < j /\ j < k /\ out_[i].tree = out_[k].tree) =>
         out_[j].tree = out_[i].tree
  /\ \A t \in Workers :
       hpc[t] = "returned" => LinesOf(out_, t) = OutputLines(sampling_data[t])

\* Two states are destroyed concurrently: one destructor has written its
\* header, has a node line left to write and holds output_sync_, while the
\* other, with two lines to write, waits for the lock.
C13_Witness ==
  \E t, u \in Workers :
    /\ t # u
    /\ hpc[t] = "writing"
    /\ Written(t) = 1
    /\ hpc[u] = "called"
    /\ Len(OutputLines(sampling_data[t])) = 2
    /\ Len(OutputLines(sampling_data[u])) = 2
    /\ out_ # <<>>
    /\ out_[Len(out_)].tree = t

\* ----------------------------------------------------------------- C14

\* C14: whatever names Update is called with and in whatever order, every
\* call completes: no call faults, and whenever the next call would create a
\* node, the parent id it computes is 0 or a key of scope_data_ mapped to a
\* node of the tree; scope_data_ never holds a null or missing node.
C14_UpdateNeverFaults ==
  /\ ~crashed
  /\ \A t \in Workers :
       state[t] # "absent" =>
         LET d == sampling_data[t]
         IN  /\ \A k \in Keys(d) : d.scope_data_[k] \in DOMAIN d.scope_outputs_
             /\ \A name \in AnyNames :
                  LET h == Xor(d.current_scope_hash_, hash_fn_(name))
                      parent_hash == Xor(h, hash_fn_(name))
                  IN  /\ ~UpdateFaults(d, name)
                      /\ (h # 0 /\ h \notin Keys(d)) =>
                           \/ parent_hash = 0
                           \/ /\ parent_hash \in Keys(d)
                              /\ d.scope_data_[parent_hash]
                                   \in DOMAIN d.scope_outputs_

\* Calls in no stack order (no Scope is an automatic variable) have built a
\* tree of three nodes with a node under a non-root parent, and the thread
\* is at a non-zero path id.
C14_Witness ==
  \E t \in Workers :
    /\ state[t] = "alive"
    /\ scopes[t] = <<>>
    /\ Len(Nodes(t)) = 3
    /\ \E i \in DOMAIN Nodes(t) : Nodes(t)[i].parent # None
    /\ sampling_data[t].current_scope_hash_ # 0

\* ----------------------------------------------------------------- C15

\* C15: the thread identifier delivered to the sink with the tree of a
\* sampling state is that of the thread that owned the state, whenever the
\* owner's termination falls relative to the sampler's visits.
C15_OwnerIdDelivered ==
  \A t \in Workers :
    handled[t] # <<>> => sampling_data[t].thread_id_ = WorkerId(t)

\* ----------------------------------------------------------------- C16

\* C16: the sampler never keeps the state of a terminated thread alive: once
\* the owning thread has ended, its state has been destroyed (accumulated
\* and emitted) by that termination.
C16_DestroyedAtTermination ==
  \A t \in Workers :
    (tpc[t] = "exited" /\ state[t] # "absent") => state[t] = "destroyed"

\* ----------------------------------------------------------------- C17

\* The step is one of sampler thread s.
SamplerMoved(s) == spc'[s] # spc[s] \/ sidx'[s] # sidx[s]

\* Sampler thread s is at a registry entry whose state is gone.
AtStaleEntry(s) ==
  /\ spc[s] = "scan"
  /\ sidx[s] <= Len(samplers)
  /\ state[samplers[sidx[s]]] # "alive"

\* C17: the sampler calls TakeSample only on a state that is alive, whose
\* destructor has not begun: the state it is about to sample or has just
\* sampled is alive, and a sample is applied to a state that is alive before
\* and after it; so every sample precedes the accumulation, and the tree
\* handed to the sink holds every sample ever applied (total_samples_ is
\* the number of TakeSample calls).  At a registry entry whose state is
\* gone the pass goes on to the next entry, still holding the registry lock,
\* and changes nothing else.
C17_NoSampleAfterDestruction ==
  /\ [](\A s \in SamplerIds :
          spc[s] \in {"locked", "sampled"} =>
            state[samplers[sidx[s]]] = "alive")
  /\ [](\A t \in Workers :
          state[t] = "destroyed" =>
            sampling_data[t].total_samples_ = visits[t])
  /\ [][/\ \A t \in Workers :
             Sampled(t) => state[t] = "alive" /\ state'[t] = "alive"
        /\ \A t \in Workers :
             state[t] = "destroyed" =>
               /\ visits'[t] = visits[t]
               /\ sampling_data'[t] = sampling_data[t]
        /\ \A s \in SamplerIds :
             (AtStaleEntry(s) /\ SamplerMoved(s)) =>
               /\ spc'[s] = "scan"
               /\ sidx'[s] = sidx[s] + 1
               /\ sampler_sync' = SamplerThreadId(s)
               /\ sampler_sync = SamplerThreadId(s)
               /\ UNCHANGED << object_vars, crashed >>]_vars

\* In its first pass the sampler found the first registry entry gone (that
\* state was destroyed without ever being sampled) and has sampled the
\* second entry.
C17_Witness ==
  \E s \in SamplerIds :
    /\ passes = 1
    /\ spc[s] = "sampled"
    /\ sidx[s] = 2
    /\ state[samplers[1]] = "destroyed"
    /\ visits[samplers[1]] = 0
    /\ visits[samplers[2]] = 1

\* ----------------------------------------------------------------- C18

\* The step runs ~ThreadSamplingData on object t.
Destroyed(t) == state[t] = "alive" /\ state'[t] = "destroyed"

\* C18: the destructor leaves the shape of the tree as it is and gives every
\* node its own count from before the accumulation plus the sum of the
\* final counts of its children, every child counted once; a leaf keeps the
\* count it had.
C18_PostOrderSum ==
  [][\A t \in Workers :
       Destroyed(t) =>
         LET pre == Nodes(t)
             post == sampling_data'[t].scope_outputs_
         IN  /\ DOMAIN post = DOMAIN pre
             /\ \A i \in DOMAIN pre :
                  /\ post[i].name_ = pre[i].name_
                  /\ post[i].parent = pre[i].parent
                  /\ post[i].samples_ =
                       pre[i].samples_ + SumSamples(post, Children(post, i))
                  /\ Children(pre, i) = {} =>
                       post[i].samples_ = pre[i].samples_]_vars

\* A destroyed tree with a chain of three nodes: the innermost was sampled
\* once, the middle one never and the outermost once.
C18_Witness ==
  \E t \in Workers :
    /\ state[t] = "destroyed"
    /\ \E i, j, k \in DOMAIN Nodes(t) :
         /\ Nodes(t)[i].parent = None
         /\ Nodes(t)[j].parent = i
         /\ Nodes(t)[k].parent = j
         /\ Children(Nodes(t), i) = {j}
         /\ Children(Nodes(t), j) = {k}
         /\ Children(Nodes(t), k) = {}
         /\ Nodes(t)[k].samples_ = 1
         /\ Nodes(t)[j].samples_ = 1
         /\ Nodes(t)[i].samples_ = 2

\* ----------------------------------------------------------------- C19

\* C19: a TakeSample call raises total_samples_ by one and the count of the
\* node that is current_scope_ at that moment by one (of no node when
\* current_scope_ is null) and leaves the path id, the current node, the
\* table, the shape of the tree and every other count as they are; no other
\* step on a live state changes total_samples_ or the count of a node, so
\* that under every interleaving with Update total_samples_ is the number
\* of TakeSample calls made: none is lost, none applied twice.
C19_SampleAtomic ==
  /\ [](\A t \in Workers :
          state[t] = "alive" => sampling_data[t].total_samples_ = visits[t])
  /\ [][\A t \in Workers :
          LET d == sampling_data[t]
              e == sampling_data'[t]
          IN  /\ Sampled(t) =>
                   /\ e.total_samples_ = d.total_samples_ + 1
                   /\ e.current_scope_hash_ = d.current_scope_hash_
                   /\ e.current_scope_ = d.current_scope_
                   /\ e.scope_data_ = d.scope_data_
                   /\ DOMAIN e.scope_outputs_ = DOMAIN d.scope_outputs_
                   /\ \A i \in DOMAIN d.scope_outputs_ :
                        e.scope_outputs_[i] =
                          [d.scope_outputs_[i] EXCEPT !.samples_ =
                             @ + (IF i = d.current_scope_ THEN 1 ELSE 0)]
                   /\ scopes'[t] = scopes[t]
              /\ (state[t] = "alive" /\ state'[t] = "alive" /\ ~Sampled(t)) =>
                   /\ e.total_samples_ = d.total_samples_
                   /\ \A i \in DOMAIN d.scope_outputs_ :
                        e.scope_outputs_[i] = d.scope_outputs_[i]]_vars

\* A thread inside two scopes has been sampled twice, once with no current
\* node and once in the nested scope that is its current node now, with
\* Update calls between the two samples.
C19_Witness ==
  \E t \in Workers :
    LET d == sampling_data[t]
    IN  /\ state[t] = "alive"
        /\ visits[t] = 2
        /\ d.total_samples_ = 2
        /\ Len(scopes[t]) = 2
        /\ d.current_scope_ # None
        /\ d.scope_outputs_[d.current_scope_].samples_ = 1
        /\ d.scope_outputs_[d.current_scope_].parent # None
        /\ SumSamples(d.scope_outputs_, DOMAIN d.scope_outputs_) = 1

\* ----------------------------------------------------------------- C20

\* C20: in every state of a ThreadSamplingData, seen between its critical
\* sections, current_scope_hash_ is 0 exactly when current_scope_ is null,
\* and when it is not 0 it is a key of scope_data_ and current_scope_ is
\* the node stored under it.
C20_PathIdMatchesNode ==
  \A t \in Workers :
    state[t] # "absent" =>
      LET d == sampling_data[t]
      IN  /\ d.current_scope_hash_ = 0 <=> d.current_scope_ = None
          /\ d.current_scope_hash_ # 0 =>
               /\ d.current_scope_hash_ \in Keys(d)
               /\ d.current_scope_ = d.scope_data_[d.current_scope_hash_]
               /\ d.current_scope_ \in DOMAIN d.scope_outputs_

\* A thread is back at a path id it had reached before: its current node is
\* not the newest node of its tree, and holds a sample.
C20_Witness ==
  \E t \in Workers :
    LET d == sampling_data[t]
    IN  /\ state[t] = "alive"
        /\ d.current_scope_hash_ # 0
        /\ d.current_scope_ # None
        /\ d.current_scope_ < Len(d.scope_outputs_)
        /\ d.scope_outputs_[d.current_scope_].samples_ > 0

\* ----------------------------------------------------------------- C21

\* C21: whatever names Update has been called with (names whose hashes
\* collide or are 0 included) and in whatever order, scope_data_ has no
\* entry for the path id 0.
C21_NoEntryForZero ==
  \A t \in Workers :
    state[t] # "absent" => 0 \notin Keys(sampling_data[t])

\* A thread has reached every non-zero path id and is back at path id 0.
C21_Witness ==
  \E t \in Workers :
    /\ state[t] = "alive"
    /\ sampling_data[t].current_scope_hash_ = 0
    /\ Keys(sampling_data[t]) = {1, 2, 3}

\* ----------------------------------------------------------------- C22

\* The path ids scope_data_ stores node i under.
KeysOf(d, i) == {k \in Keys(d) : d.scope_data_[k] = i}

\* C22: every node of a tree is stored under a path id, and its parent is
\* the node stored under that id XOR the hash of the node's name, or
\* output_ itself when that value is 0; once a node exists, no step (Update,
\* TakeSample, the destructor) removes it, renames it or gives it another
\* parent.
C22_ParentFixed ==
  /\ [](\A t \in Workers :
          state[t] # "absent" =>
            LET d == sampling_data[t]
            IN  \A i \in DOMAIN d.scope_outputs_ :
                  /\ KeysOf(d, i) # {}
                  /\ \A k \in KeysOf(d, i) :
                       LET pk == Xor(k, hash_fn_(d.scope_outputs_[i].name_))
                       IN  d.scope_outputs_[i].parent =
                             (IF pk = 0 THEN None ELSE d.scope_data_[pk]))
  /\ [][\A t \in Workers :
          state[t] # "absent" =>
            \A i \in DOMAIN Nodes(t) :
              /\ i \in DOMAIN sampling_data'[t].scope_outputs_
              /\ sampling_data'[t].scope_outputs_[i].parent = Nodes(t)[i].parent
              /\ sampling_data'[t].scope_outputs_[i].name_ = Nodes(t)[i].name_]_vars

\* A tree three levels deep, sampled, whose thread is back at path id 0.
C22_Witness ==
  \E t \in Workers :
    /\ state[t] = "alive"
    /\ visits[t] > 0
    /\ sampling_data[t].current_scope_hash_ = 0
    /\ \E i, j \in DOMAIN Nodes(t) :
         /\ Nodes(t)[i].parent = j
         /\ Nodes(t)[j].parent # None

\* ----------------------------------------------------------------- C23

\* The step is an Update call on object t (or leaves the object as it is).
Updated(t) == state[t] = "alive" /\ state'[t] = "alive" /\ ~Sampled(t)

\* C23: scope_data_ maps its keys one-to-one onto the nodes of the tree, so
\* the tree has as many nodes as the table has entries.  An Update that
\* lands on a path id the table holds creates no node and changes no count:
\* it only makes the node stored under that id the current one.  An Update
\* that lands on a new non-zero path id appends exactly one node, after all
\* nodes that exist (the child lists are in order of first entry).
C23_OneNodePerPathId ==
  /\ [](\A t \in Workers :
          state[t] # "absent" =>
            LET d == sampling_data[t]
            IN  /\ Len(d.scope_outputs_) = Cardinality(Keys(d))
                /\ \A i \in DOMAIN d.scope_outputs_ :
                     Cardinality(KeysOf(d, i)) = 1)
  /\ [][\A t \in Workers :
          Updated(t) =>
            LET d == sampling_data[t]
                e == sampling_data'[t]
                h == e.current_scope_hash_
                n == Len(d.scope_outputs_)
            IN  /\ h \in Keys(d) =>
                     /\ e.scope_outputs_ = d.scope_outputs_
                     /\ e.scope_data_ = d.scope_data_
                     /\ e.current_scope_ = d.scope_data_[h]
                /\ h = 0 =>
                     /\ e.scope_outputs_ = d.scope_outputs_
                     /\ e.scope_data_ = d.scope_data_
                /\ (h # 0 /\ h \notin Keys(d)) =>
                     /\ Len(e.scope_outputs_) = n + 1
                     /\ SubSeq(e.scope_outputs_, 1, n) = d.scope_outputs_
                     /\ e.scope_outputs_[n + 1].samples_ = 0
                     /\ e.scope_data_ = Insert(d.scope_data_, h, n + 1)
                     /\ e.current_scope_ = n + 1]_vars

\* A thread is again in the scope it entered first, whose node holds two
\* samples, after it has built two more nodes.
C23_Witness ==
  \E t \in Workers :
    LET d == sampling_data[t]
    IN  /\ state[t] = "alive"
        /\ Len(d.scope_outputs_) = 3
        /\ d.current_scope_ = 1
        /\ d.scope_outputs_[1].samples_ = 2

\* ----------------------------------------------------------------- C24

\* The ThreadSamplingData objects created so far.
Created == {t \in Workers : state[t] # "absent"}

\* C24: Ext::samplers holds one entry for every state ever created and no
\* other, each once, so its length is the number of states created; a step
\* appends the entry of a state it creates and otherwise leaves the registry
\* as it is: thread termination, the sampler's pass and Stop remove and
\* reorder nothing.
C24_RegistryAppendOnly ==
  /\ [](/\ Len(samplers) = Cardinality(Created)
        /\ {samplers[i] : i \in DOMAIN samplers} = Created)
  /\ [][/\ Len(samplers') >= Len(samplers)
        /\ SubSeq(samplers', 1, Len(samplers)) = samplers
        /\ \A t \in Workers :
             (state[t] = "absent" /\ state'[t] # "absent") =>
               samplers' = Append(samplers, t)
        /\ (\A t \in Workers : state[t] = "absent" => state'[t] = "absent") =>
             samplers' = samplers]_vars

\* Both threads have ended and their states are destroyed, the sampler has
\* made passes and Stop has joined it: the registry still has both entries.
C24_Witness ==
  /\ Len(samplers) = 2
  /\ \A t \in Workers : state[t] = "destroyed"
  /\ passes >= 2
  /\ \E c \in Callers : last_return[c] = "stop_joined"

\* ----------------------------------------------------------------- C25

\* The sampler loop threads that exist: started and not yet returned.
SamplerThreads == {s \in SamplerIds : spc[s] \notin {"none", "exited"}}

\* C25: at every moment at most one sampler loop thread exists, whatever
\* Init and Stop calls the application threads make, racing Init calls of
\* two threads included.
C25_AtMostOneSampler == Cardinality(SamplerThreads) <= 1

\* ----------------------------------------------------------------- C28

\* C28: when two threads call Stop at the same time while the sampler runs,
\* the sampler thread is joined at most once: never are two callers past
\* the check and at the join, and never has join been called a second time.
C28_JoinedAtMostOnce ==
  Cardinality({c \in Callers : cpc[c] = "stop_join"}) + joins <= 1

\* ----------------------------------------------------------------- C26

\* Sampler thread s is inside a pass over the registry.
InPass(s) == spc[s] \in {"scan", "locked", "sampled"}

\* C26: a sampler thread inside a pass holds Ext::sampler_sync, and while it
\* does the registry does not change (no state is registered in the middle
\* of a pass).  The pass goes through the entries in registry order, one at
\* a time: it leaves an entry only after TakeSample on its state, or
\* because the state is gone; every TakeSample is the one call of the pass
\* for the entry it is at; and the pass ends only behind the last entry.
\* When the pass has ended and the flag reads true, the thread's next step
\* begins the next pass at the first entry.
C26_PassUnderRegistryLock ==
  /\ [](\A s \in SamplerIds :
          InPass(s) =>
            /\ sampler_sync = SamplerThreadId(s)
            /\ sidx[s] \in 1..(Len(samplers) + 1)
            /\ spc[s] # "scan" => sidx[s] <= Len(samplers))
  /\ [][/\ \A s \in SamplerIds :
             (InPass(s) /\ ~crashed') =>
               /\ samplers' = samplers
               /\ spc'[s] = "loop" =>
                    (spc[s] = "scan" /\ sidx[s] = Len(samplers) + 1)
               /\ (InPass(s)' /\ sidx'[s] # sidx[s]) =>
                    /\ sidx'[s] = sidx[s] + 1
                    /\ spc'[s] = "scan"
                    /\ spc[s] = "sampled" \/ AtStaleEntry(s)
               /\ (spc[s] = "scan" /\ spc'[s] = "locked") =>
                    state[samplers[sidx[s]]] = "alive"
               /\ (spc[s] = "locked" /\ SamplerMoved(s)) =>
                    /\ spc'[s] = "sampled"
                    /\ Sampled(samplers[sidx[s]])
               /\ (spc[s] = "sampled" /\ SamplerMoved(s)) =>
                    spc'[s] = "scan"
        /\ \A t \in Workers :
             Sampled(t) =>
               \E s \in SamplerIds :
                 /\ spc[s] = "locked"
                 /\ spc'[s] = "sampled"
                 /\ samplers[sidx[s]] = t
        /\ \A s \in SamplerIds :
             (spc[s] = "loop" /\ SamplerMoved(s) /\ keep_sampling) =>
               /\ spc'[s] = "scan"
               /\ sidx'[s] = 1
               /\ sampler_sync' = SamplerThreadId(s)]_vars

\* The second pass, begun right after the first, is at the second entry:
\* both states were sampled in the first pass and the first one again in
\* the second.
C26_Witness ==
  \E s \in SamplerIds :
    /\ passes = 2
    /\ spc[s] = "locked"
    /\ sidx[s] = 2
    /\ Len(samplers) = 2
    /\ visits[samplers[1]] = 2
    /\ visits[samplers[2]] = 1

\* ----------------------------------------------------------------- C27

\* The thread identifier of a thread that calls Init and Stop.
CallerId(c) == [kind |-> "caller", n |-> c]

\* All threads.
ThreadIds ==
  {WorkerId(t) : t \in Workers}
    \cup {SamplerThreadId(s) : s \in SamplerIds}
    \cup {CallerId(c) : c \in Callers}

\* The threads that thread x waits for: the holder of the lock it is
\* blocked at, or the thread it joins.  A worker about to register waits for
\* the holder of Ext::sampler_sync, and so does a sampler thread about to
\* begin a pass; a thread whose destructor has called HandleOutput waits
\* for the holder of output_sync_; a caller in join() waits for the sampler
\* thread until that has returned.
WaitsFor(x) ==
  {y \in ThreadIds \ {x} :
     \/ /\ x.kind = "worker"
        /\ tpc[x.n] = "start"
        /\ sampler_sync = y
     \/ /\ x.kind = "sampler"
        /\ spc[x.n] = "loop"
        /\ keep_sampling
        /\ sampler_sync = y
     \/ /\ \E t \in Workers :
             hpc[t] = "called" /\ sampling_data[t].thread_id_ = x
        /\ output_sync_ = y
     \/ /\ x.kind = "caller"
        /\ cpc[x.n] = "stop_join"
        /\ y = SamplerThreadId(sampling_worker)
        /\ spc[sampling_worker] # "exited"}

\* Thread y is reached from thread x along at most n waits.
RECURSIVE WaitChain(_, _, _)
WaitChain(x, y, n) ==
  /\ n > 0
  /\ \E z \in WaitsFor(x) : z = y \/ WaitChain(z, y, n - 1)

\* Thread x can take a step.
CanStep(x) ==
  \/ /\ x.kind = "worker"
     /\ ENABLED WorkerStep(x.n, Names, MaxDepth)
  \/ /\ x.kind = "sampler"
     /\ ENABLED SamplerStep(x.n)
  \/ /\ x.kind = "caller"
     /\ ENABLED StopStep(x.n)
  \/ \E t \in Workers :
       /\ sampling_data[t].thread_id_ = x
       /\ ENABLED HandleOutputStep(t)

\* C27: no reachable state has threads that wait for one another in a
\* cycle, and every thread that is waited for either waits itself or can
\* take a step; a thread that holds output_sync_ holds or needs no other
\* lock that a waiting thread has, the locks being taken in the order
\* Ext::sampler_sync, sample_sync_, output_sync_.
C27_NoDeadlock ==
  /\ \A x \in ThreadIds : ~WaitChain(x, x, Cardinality(ThreadIds))
  /\ \A x \in ThreadIds :
       \A y \in WaitsFor(x) : WaitsFor(y) # {} \/ CanStep(y)
  /\ \A x \in ThreadIds :
       (output_sync_ = x /\ WaitsFor(x) # {}) => sampler_sync # x

\* A caller waits in join() for the sampler thread, which holds
\* Ext::sampler_sync and waits in a destructor for output_sync_, held by a
\* worker that is printing its own tree.
C27_Witness ==
  \E c \in Callers, s \in SamplerIds, t, u \in Workers :
    /\ cpc[c] = "stop_join"
    /\ sampling_worker = s
    /\ sampler_sync = SamplerThreadId(s)
    /\ hpc[t] = "called"
    /\ sampling_data[t].thread_id_ = SamplerThreadId(s)
    /\ hpc[u] = "writing"
    /\ sampling_data[u].thread_id_ = WorkerId(u)
    /\ output_sync_ = WorkerId(u)

\* ----------------------------------------------------------------- C29

\* C29: whenever ~ThreadSamplingData runs, Ext::receiver holds a sink, for
\* every order of Init, scope-marker use and thread termination: the
\* destructor never calls HandleOutput on an absent sink.
C29_SinkInstalledAtDestruction ==
  [][\A t \in Workers : Destroyed(t) => (receiver # None /\ ~crashed')]_vars

\* ----------------------------------------------------------------- C30

\* The sum of the counts of all nodes of a tree.
AllSamples(nodes) == SumSamples(nodes, DOMAIN nodes)

\* The sum of the counts of the top-level nodes of a tree.
TopSamples(nodes) == SumSamples(nodes, Children(nodes, None))

\* C30: before accumulation the counts of all nodes of a tree add up to at
\* most total_samples_: a TakeSample adds one to the total and one to the
\* sum unless it is taken at the root (no current scope), and no Update
\* changes either.  After accumulation the counts of the top-level nodes
\* add up to what all nodes held before, hence to at most total_samples_,
\* and their proportions, where total_samples_ is not 0, are these counts
\* over total_samples_ and add up to at most 1.
C30_SampleConservation ==
  /\ [](\A t \in Workers :
          /\ state[t] = "alive" =>
               AllSamples(Nodes(t)) <= sampling_data[t].total_samples_
          /\ state[t] = "destroyed" =>
               LET nodes == Nodes(t)
                   total == sampling_data[t].total_samples_
               IN  /\ TopSamples(nodes) <= total
                   /\ total > 0 =>
                        \A i \in Children(nodes, None) :
                          nodes[i].cpu_proportion_ =
                            Double(nodes[i].samples_, total))
  /\ [][\A t \in Workers :
          LET d == sampling_data[t]
              e == sampling_data'[t]
          IN  /\ Sampled(t) =>
                   /\ e.total_samples_ = d.total_samples_ + 1
                   /\ AllSamples(e.scope_outputs_) =
                        AllSamples(d.scope_outputs_)
                          + (IF d.current_scope_ = None THEN 0 ELSE 1)
              /\ Updated(t) =>
                   /\ e.total_samples_ = d.total_samples_
                   /\ AllSamples(e.scope_outputs_) = AllSamples(d.scope_outputs_)
              /\ Destroyed(t) =>
                   /\ e.total_samples_ = d.total_samples_
                   /\ TopSamples(e.scope_outputs_) = AllSamples(d.scope_outputs_)]_vars

\* A destroyed tree of a thread sampled twice, once at the root and once in
\* a nested scope, with two top-level nodes: the top-level counts add up to
\* 1 of 2.
C30_Witness ==
  \E t \in Workers :
    /\ state[t] = "destroyed"
    /\ sampling_data[t].total_samples_ = 2
    /\ Cardinality(Children(Nodes(t), None)) = 2
    /\ TopSamples(Nodes(t)) = 1
    /\ \E i \in DOMAIN Nodes(t) :
         /\ Nodes(t)[i].parent # None
         /\ Nodes(t)[i].samples_ = 1

====
